---- MODULE Spec2Model ----
(***************************************************************************)
(* The raster drawing engine of src/src/components/DrawingCanvas.tsx and   *)
(* the signals its host (src/unnamed/part_000, App) sends it.              *)
(*                                                                         *)
(* The pixel buffer is the canvas bitmap: width, height and one RGBA       *)
(* quadruple per pixel, indexed y * width + x as ImageData.data is.        *)
(* Pointer coordinates are display-space cells; the 2D context paints a    *)
(* display cell onto scale x scale buffer pixels (ctx.scale(ratio,ratio)). *)
(* Strokes are opaque and not anti-aliased: a painted pixel takes the      *)
(* stroke colour under source-over and becomes transparent under           *)
(* destination-out.  putImageData, getImageData and clearRect ignore the   *)
(* composite operation and the transform; fillRect, stroke and drawImage   *)
(* honour them.                                                            *)
(***************************************************************************)
EXTENDS Integers, Sequences, FiniteSets, TLC

VARIABLES
    canvas,         \* canvasRef: [w, h, data, cssW, cssH]
    ctx,            \* contextRef: [scale, gco, path, saved]
    history,        \* historyRef.current: sequence of ImageData
    isDrawing,      \* isDrawingRef.current
    shapeStart,     \* shapeStartRef.current: a point or Null
    shapeSnapshot,  \* shapeSnapshotRef.current: <<ImageData>> or Null
    tool,           \* prop tool
    color,          \* prop color: a hex string [hash, digits]
    brushSize,      \* prop brushSize
    clearSignal,    \* prop clearSignal (0, or 1 for any positive count)
    undoSignal,     \* prop undoSignal (0, or 1 for any positive count)
    pending,        \* images whose onload has not fired yet
    probe,          \* arguments and results of the pure functions under test
    obs             \* history variables: what the last events did

vars == <<canvas, ctx, history, isDrawing, shapeStart, shapeSnapshot, tool,
          color, brushSize, clearSignal, undoSignal, pending, probe, obs>>

\* null: the empty tuple; a non-null ImageData held in a ref is <<image>>.
Null == <<>>

Max(a, b) == IF a >= b THEN a ELSE b
Min(a, b) == IF a <= b THEN a ELSE b
Abs(a) == IF a >= 0 THEN a ELSE 0 - a

(***************************************************************************)
(* Colours                                                                 *)
(***************************************************************************)

\* An RGBA quadruple <<r, g, b, a>>; Undef is what data[offset] yields
\* outside the array (undefined).
Undef == <<"undefined">>
Transparent == <<0, 0, 0, 0>>
OpaqueWhite == <<255, 255, 255, 255>>

\* A hex colour string: whether it starts with '#', and its hex digits.
Hex(hash, digits) == [hash |-> hash, digits |-> digits]

RECURSIVE parseInt16(_)
\* Number.parseInt(normalized, 16) of a string of hex digits ("" gives NaN,
\* which every bit operation below reads as 0).
parseInt16(digits) ==
    IF digits = <<>> THEN 0
    ELSE 16 * parseInt16(SubSeq(digits, 1, Len(digits) - 1)) + digits[Len(digits)]

\* (v >> n) & mask.  The strings modelled have at most seven hex digits, so
\* v < 2^28 and the conversion of v to 32 bits leaves it as it is.
ShiftMask(v, n, mask) == (v \div (2 ^ n)) % (mask + 1)

\* The characters of a hex colour string: a hex digit is its value 0..15
\* and '#' is the value Hash.
Hash == 16
Chars(hex) == IF hex.hash THEN <<Hash>> \o hex.digits ELSE hex.digits

RECURSIVE replaceHash(_)
\* str.replace("#", ""): the string without its first '#'.
replaceHash(str) ==
    IF str = <<>> THEN <<>>
    ELSE IF str[1] = Hash THEN Tail(str)
    ELSE <<str[1]>> \o replaceHash(Tail(str))

RECURSIVE HexPrefix(_)
\* The longest prefix of hex digits, which is what Number.parseInt reads.
HexPrefix(str) ==
    IF str = <<>> \/ str[1] = Hash THEN <<>>
    ELSE <<str[1]>> \o HexPrefix(Tail(str))

\* hexToRgba reading a three-digit string like a six-digit one.
hexToRgbaNoShortForm(hex) ==
    LET normalized == replaceHash(Chars(hex))
        bigint == parseInt16(HexPrefix(normalized))
    IN  <<ShiftMask(bigint, 16, 255), ShiftMask(bigint, 8, 255),
          ShiftMask(bigint, 0, 255), 255>>

hexToRgba(hex) ==
    LET normalized == replaceHash(Chars(hex))
        bigint == parseInt16(HexPrefix(normalized))
    IN  IF Len(normalized) = 3
        THEN LET r == ShiftMask(bigint, 8, 15)
                 g == ShiftMask(bigint, 4, 15)
                 b == ShiftMask(bigint, 0, 15)
             IN  <<16 * r + r, 16 * g + g, 16 * b + b, 255>>
        ELSE <<ShiftMask(bigint, 16, 255), ShiftMask(bigint, 8, 255),
               ShiftMask(bigint, 0, 255), 255>>

Tolerance == 26

colorsMatchNoAbs(a, b) ==
    /\ a # Undef /\ b # Undef
    /\ \A i \in 1..4 : a[i] - b[i] <= Tolerance

\* Math.abs(undefined - n) is NaN and NaN <= 26 is false.
colorsMatch(a, b) ==
    /\ a # Undef /\ b # Undef
    /\ Abs(a[1] - b[1]) <= Tolerance
    /\ Abs(a[2] - b[2]) <= Tolerance
    /\ Abs(a[3] - b[3]) <= Tolerance
    /\ Abs(a[4] - b[4]) <= Tolerance

(***************************************************************************)
(* Images and pixels                                                       *)
(***************************************************************************)

\* An ImageData: [w, h, data], data indexed 0 .. w*h-1.
Image(w, h, data) == [w |-> w, h |-> h, data |-> data]
Blank(w, h, c) == Image(w, h, [i \in 0..(w * h - 1) |-> c])
Pixels(w, h) == {<<x, y>> : x \in 0..(w - 1), y \in 0..(h - 1)}
InBounds(w, h, p) == p[1] >= 0 /\ p[1] < w /\ p[2] >= 0 /\ p[2] < h
Idx(w, p) == p[2] * w + p[1]
At(data, i) == IF i \in DOMAIN data THEN data[i] ELSE Undef
BufferOf(cv) == Image(cv.w, cv.h, cv.data)

(***************************************************************************)
(* What the 2D context rasterises                                          *)
(***************************************************************************)

\* CSS parsing of strokeStyle = color: '#rgb' and '#rrggbb' are colours, any
\* other string is ignored and strokeStyle keeps its value.
CssValid(hex) == hex.hash /\ Len(hex.digits) \in {3, 6}
CssColor(hex) ==
    LET d == hex.digits
    IN  IF Len(d) = 3 THEN <<17 * d[1], 17 * d[2], 17 * d[3], 255>>
        ELSE <<16 * d[1] + d[2], 16 * d[3] + d[4], 16 * d[5] + d[6], 255>>

\* The display cells a round-capped segment from p to q runs through
\* (a zero-length segment paints its one cell: the dot of a tap).
LineCells(p, q) ==
    LET dx == q[1] - p[1]
        dy == q[2] - p[2]
        n == Max(Abs(dx), Abs(dy))
    IN  IF n = 0 THEN {p}
        ELSE {<<p[1] + ((2 * i * dx + n) \div (2 * n)),
                p[2] + ((2 * i * dy + n) \div (2 * n))>> : i \in 0..n}

\* strokeRect(x, y, w, h): nothing when w = h = 0, else the outline of the box.
RectCells(p, q) ==
    LET x0 == Min(p[1], q[1])
        x1 == Max(p[1], q[1])
        y0 == Min(p[2], q[2])
        y1 == Max(p[2], q[2])
    IN  IF p = q THEN {}
        ELSE {<<x, y>> \in (x0..x1) \X (y0..y1) :
                 x = x0 \/ x = x1 \/ y = y0 \/ y = y1}

\* ellipse(centre, |w|/2, |h|/2): the outline inscribed in the box; it
\* misses the corners of a box three or more cells wide and high.
EllipseCells(p, q) ==
    LET x0 == Min(p[1], q[1])
        x1 == Max(p[1], q[1])
        y0 == Min(p[2], q[2])
        y1 == Max(p[2], q[2])
        round == x1 - x0 >= 2 /\ y1 - y0 >= 2
    IN  {<<x, y>> \in (x0..x1) \X (y0..y1) :
            /\ x = x0 \/ x = x1 \/ y = y0 \/ y = y1
            /\ ~(round /\ x \in {x0, x1} /\ y \in {y0, y1})}

\* The cells a stroke of lineWidth lw covers around the cells of its path.
Brush(cells, lw) ==
    UNION {{<<c[1] + i, c[2] + j>> : i \in 0..(lw - 1), j \in 0..(lw - 1)} : c \in cells}

\* Display cells to buffer pixels under the context's transform scale k.
ToBuffer(cells, k) ==
    UNION {{<<c[1] * k + i, c[2] * k + j>> : i \in 0..(k - 1), j \in 0..(k - 1)} : c \in cells}

\* The pixel a composite operation leaves where an opaque source is drawn.
Composite(gco, dest, src) ==
    IF gco = "destination-out"
    THEN (IF src[4] = 255 THEN Transparent ELSE dest)
    ELSE (IF src[4] = 255 THEN src ELSE dest)

\* context.stroke() / strokeRect of the given display cells.
StrokeCells(cv, cx, cells) ==
    LET px == ToBuffer(Brush(cells, cx.lineWidth), cx.scale)
    IN  [cv EXCEPT !.data =
            [i \in DOMAIN cv.data |->
                IF <<i % cv.w, i \div cv.w>> \in px
                THEN Composite(cx.gco, cv.data[i], cx.strokeStyle)
                ELSE cv.data[i]]]

\* context.clearRect(0, 0, canvas.width, canvas.height)
ClearRect(cv) == [cv EXCEPT !.data = [i \in DOMAIN cv.data |-> Transparent]]

\* context.fillRect(0, 0, canvas.width, canvas.height) with fillStyle c,
\* under the identity transform.
FillRect(cv, cx, c) ==
    [cv EXCEPT !.data = [i \in DOMAIN cv.data |-> Composite(cx.gco, cv.data[i], c)]]

\* context.putImageData(img, 0, 0): the pixels of img that lie on the canvas
\* replace the canvas's, whatever the composite operation.
PutImageData(cv, img) ==
    [cv EXCEPT !.data =
        [i \in DOMAIN cv.data |->
            LET p == <<i % cv.w, i \div cv.w>>
            IN  IF InBounds(img.w, img.h, p) THEN img.data[Idx(img.w, p)]
                ELSE cv.data[i]]]

\* context.drawImage(image, 0, 0, canvas.width, canvas.height): the image
\* stretched over the whole canvas (nearest source pixel), composited.
DrawImage(cv, cx, img) ==
    [cv EXCEPT !.data =
        [i \in DOMAIN cv.data |->
            LET p == <<i % cv.w, i \div cv.w>>
                sp == <<(p[1] * img.w) \div cv.w, (p[2] * img.h) \div cv.h>>
            IN  Composite(cx.gco, cv.data[i], img.data[Idx(img.w, sp)])]]

\* context.save() and context.restore(): the transform and the composite
\* operation are part of the saved drawing state.
Save(cx) == [cx EXCEPT !.saved = Append(@, [scale |-> cx.scale, gco |-> cx.gco])]
Restore(cx) ==
    IF cx.saved = <<>> THEN cx
    ELSE [cx EXCEPT !.scale = cx.saved[Len(cx.saved)].scale,
                    !.gco = cx.saved[Len(cx.saved)].gco,
                    !.saved = SubSeq(@, 1, Len(@) - 1)]

SetIdentity(cx) == [cx EXCEPT !.scale = 1]

EmptyPath == [cells |-> {}, last |-> Null]

\* The drawing state a canvas has after canvas.width is assigned, followed by
\* setTransform(1,0,0,1,0,0); scale(ratio, ratio); lineCap/lineJoin round.
FreshContext(ratio) ==
    [scale |-> ratio, gco |-> "source-over", path |-> EmptyPath, saved |-> <<>>,
     lineWidth |-> 1, strokeStyle |-> <<0, 0, 0, 255>>]

\* context.strokeStyle = color
SetStrokeStyle(cx, hex) ==
    IF CssValid(hex) THEN [cx EXCEPT !.strokeStyle = CssColor(hex)] ELSE cx

(***************************************************************************)
(* The component: a state S is the record of its refs and props            *)
(*   [cv, cx, history, isDrawing, shapeStart, shapeSnapshot,               *)
(*    tool, color, brushSize]                                              *)
(* and each handler is an operator from states to states.                  *)
(***************************************************************************)

MaxHistory == 25

ShapeTools == {"line", "rectangle", "ellipse"}
Tools == {"pencil", "eraser", "line", "rectangle", "ellipse", "fill"}

getPixelCoordinates(cv, point) ==
    <<(point[1] * cv.w) \div cv.cssW, (point[2] * cv.h) \div cv.cssH>>

\* The loop's iteration pushing the eight neighbours.
floodStepDiagonal(ls, width, height, fillColor, targetColorRgba) ==
    LET n == Len(ls.stack)
        p == ls.stack[n]
        x == p[1]
        y == p[2]
        idx == y * width + x
        rest == [ls EXCEPT !.stack = SubSeq(ls.stack, 1, n - 1)]
    IN  IF x < 0 \/ x >= width \/ y < 0 \/ y >= height THEN rest
        ELSE IF idx \in ls.visited THEN rest
        ELSE IF ~colorsMatch(At(ls.data, idx), targetColorRgba) THEN rest
        ELSE [data |-> [ls.data EXCEPT ![idx] = fillColor],
              stack |-> rest.stack \o <<<<x + 1, y>>, <<x - 1, y>>, <<x, y + 1>>, <<x, y - 1>>,
                                        <<x + 1, y + 1>>, <<x - 1, y - 1>>,
                                        <<x + 1, y - 1>>, <<x - 1, y + 1>>>>,
              visited |-> ls.visited \cup {idx},
              writes |-> Append(ls.writes, idx)]

\* The loop's iteration writing a pixel again when it is already marked
\* visited.
floodStepRewrite(ls, width, height, fillColor, targetColorRgba) ==
    LET n == Len(ls.stack)
        p == ls.stack[n]
        x == p[1]
        y == p[2]
        idx == y * width + x
        rest == [ls EXCEPT !.stack = SubSeq(ls.stack, 1, n - 1)]
    IN  IF x < 0 \/ x >= width \/ y < 0 \/ y >= height THEN rest
        ELSE IF idx \in ls.visited
             THEN [rest EXCEPT !.data[idx] = fillColor,
                               !.writes = Append(ls.writes, idx)]
        ELSE IF ~colorsMatch(At(ls.data, idx), targetColorRgba) THEN rest
        ELSE [data |-> [ls.data EXCEPT ![idx] = fillColor],
              stack |-> rest.stack \o <<<<x + 1, y>>, <<x - 1, y>>, <<x, y + 1>>, <<x, y - 1>>>>,
              visited |-> ls.visited \cup {idx},
              writes |-> Append(ls.writes, idx)]

\* One iteration of the while loop of floodFill on
\* ls = [data, stack, visited, writes]; writes lists the setPixel calls.
floodStep(ls, width, height, fillColor, targetColorRgba) ==
    LET n == Len(ls.stack)
        p == ls.stack[n]
        x == p[1]
        y == p[2]
        idx == y * width + x
        rest == [ls EXCEPT !.stack = SubSeq(ls.stack, 1, n - 1)]
    IN  IF x < 0 \/ x >= width \/ y < 0 \/ y >= height THEN rest
        ELSE IF idx \in ls.visited THEN rest
        ELSE IF ~colorsMatch(At(ls.data, idx), targetColorRgba) THEN rest
        ELSE [data |-> [ls.data EXCEPT ![idx] = fillColor],
              stack |-> rest.stack \o <<<<x + 1, y>>, <<x - 1, y>>, <<x, y + 1>>, <<x, y - 1>>>>,
              visited |-> ls.visited \cup {idx},
              writes |-> Append(ls.writes, idx)]

RECURSIVE floodLoop(_, _, _, _, _)
floodLoop(ls, width, height, fillColor, targetColorRgba) ==
    IF ls.stack = <<>> THEN ls
    ELSE floodLoop(floodStep(ls, width, height, fillColor, targetColorRgba),
                   width, height, fillColor, targetColorRgba)

\* floodFill without the return taken when the target matches the fill colour.
floodFillNoReturn(S, start) ==
    IF S.cv.w = 0 \/ S.cv.h = 0
    THEN [S EXCEPT !.cx = SetIdentity(Save(S.cx))]
    ELSE
    LET pixelPoint == getPixelCoordinates(S.cv, start)
        targetColor == At(S.cv.data, Idx(S.cv.w, pixelPoint))
        fillColor == hexToRgba(S.color)
        done == floodLoop([data |-> S.cv.data, stack |-> <<pixelPoint>>,
                           visited |-> {}, writes |-> <<>>],
                          S.cv.w, S.cv.h, fillColor, targetColor)
    IN  [S EXCEPT !.cv = PutImageData(S.cv, Image(S.cv.w, S.cv.h, done.data)),
                  !.cx = Restore(SetIdentity(Save(S.cx)))]

\* floodFill(start).  On a canvas without pixels getImageData(0, 0, 0, 0)
\* throws after save() and setTransform(): the handler ends there.
floodFill(S, start) ==
    IF S.cv.w = 0 \/ S.cv.h = 0
    THEN [S EXCEPT !.cx = SetIdentity(Save(S.cx))]
    ELSE
    LET pixelPoint == getPixelCoordinates(S.cv, start)
        data == S.cv.data
        targetColor == At(data, Idx(S.cv.w, pixelPoint))
        fillColor == hexToRgba(S.color)
        done == floodLoop([data |-> data, stack |-> <<pixelPoint>>,
                           visited |-> {}, writes |-> <<>>],
                          S.cv.w, S.cv.h, fillColor, targetColor)
    IN  IF colorsMatch(targetColor, fillColor)
        THEN [S EXCEPT !.cx = Restore(SetIdentity(Save(S.cx)))]
        ELSE [S EXCEPT !.cv = PutImageData(S.cv, Image(S.cv.w, S.cv.h, done.data)),
                       !.cx = Restore(SetIdentity(Save(S.cx)))]

\* pushSnapshotForUndo shifting only once the history is longer than 25.
pushSnapshotForUndoLate(S) ==
    IF S.cv.w = 0 \/ S.cv.h = 0
    THEN [s |-> [S EXCEPT !.cx = SetIdentity(Save(S.cx))], snapshot |-> Null]
    ELSE LET snapshot == BufferOf(S.cv)
             kept == IF Len(S.history) > MaxHistory THEN Tail(S.history) ELSE S.history
         IN  [s |-> [S EXCEPT !.cx = Restore(SetIdentity(Save(S.cx))),
                              !.history = Append(kept, snapshot)],
              snapshot |-> <<snapshot>>]

\* pushSnapshotForUndo dropping the newest snapshot of a full history.
pushSnapshotForUndoDropNewest(S) ==
    IF S.cv.w = 0 \/ S.cv.h = 0
    THEN [s |-> [S EXCEPT !.cx = SetIdentity(Save(S.cx))], snapshot |-> Null]
    ELSE LET snapshot == BufferOf(S.cv)
             kept == IF Len(S.history) >= MaxHistory
                     THEN SubSeq(S.history, 1, Len(S.history) - 1) ELSE S.history
         IN  [s |-> [S EXCEPT !.cx = Restore(SetIdentity(Save(S.cx))),
                              !.history = Append(kept, snapshot)],
              snapshot |-> <<snapshot>>]

\* pushSnapshotForUndo: [s |-> the state after it, snapshot |-> what it returns].
\* getImageData throws on a canvas without pixels; the catch returns null
\* after save() and setTransform() have run.
pushSnapshotForUndo(S) ==
    IF S.cv.w = 0 \/ S.cv.h = 0
    THEN [s |-> [S EXCEPT !.cx = SetIdentity(Save(S.cx))], snapshot |-> Null]
    ELSE LET snapshot == BufferOf(S.cv)
             kept == IF Len(S.history) >= MaxHistory THEN Tail(S.history) ELSE S.history
         IN  [s |-> [S EXCEPT !.cx = Restore(SetIdentity(Save(S.cx))),
                              !.history = Append(kept, snapshot)],
              snapshot |-> <<snapshot>>]

\* restoreSnapshot leaving the buffer as the last preview left it.
restoreSnapshotKeep(S, snapshot) ==
    IF snapshot = Null THEN S
    ELSE [S EXCEPT !.cx = Restore(SetIdentity(Save(S.cx)))]

restoreSnapshot(S, snapshot) ==
    IF snapshot = Null THEN S
    ELSE [S EXCEPT !.cx = Restore(SetIdentity(Save(S.cx))),
                   !.cv = PutImageData(ClearRect(S.cv), snapshot[1])]

drawPreviewShape(S, current) ==
    IF S.shapeStart = Null THEN S
    ELSE
    LET start == S.shapeStart
        S1 == restoreSnapshot(S, S.shapeSnapshot)
        cx1 == [SetStrokeStyle(S1.cx, S.color) EXCEPT !.lineWidth = S.brushSize,
                                                      !.gco = "source-over"]
    IN  IF S.tool = "line"
        THEN [S1 EXCEPT !.cx = [cx1 EXCEPT !.path = [cells |-> LineCells(start, current),
                                                     last |-> start]],
                        !.cv = StrokeCells(S1.cv, cx1, LineCells(start, current))]
        ELSE IF S.tool = "rectangle"
        THEN [S1 EXCEPT !.cx = cx1,
                        !.cv = StrokeCells(S1.cv, cx1, RectCells(start, current))]
        ELSE IF S.tool = "ellipse"
        THEN [S1 EXCEPT !.cx = [cx1 EXCEPT !.path =
                                    [cells |-> EllipseCells(start, current),
                                     last |-> <<Max(start[1], current[1]),
                                                (start[2] + current[2]) \div 2>>]],
                        !.cv = StrokeCells(S1.cv, cx1, EllipseCells(start, current))]
        ELSE [S1 EXCEPT !.cx = cx1]

\* stopDrawing without the reset of globalCompositeOperation.
stopDrawingKeepMode(S) ==
    [S EXCEPT !.isDrawing = FALSE,
              !.shapeStart = Null,
              !.shapeSnapshot = Null]

stopDrawing(S) ==
    [S EXCEPT !.cx = IF S.isDrawing THEN [S.cx EXCEPT !.gco = "source-over"] ELSE S.cx,
              !.isDrawing = FALSE,
              !.shapeStart = Null,
              !.shapeSnapshot = Null]

\* handlePointerDown without the return after floodFill: the fill goes on
\* into the code that starts a gesture.
handlePointerDownFillDrags(S, point) ==
    LET pushed == pushSnapshotForUndo(S)
        S1 == IF S.tool = "fill" THEN floodFill(pushed.s, point) ELSE pushed.s
        cx2 == [SetStrokeStyle(S1.cx, S.color) EXCEPT
                    !.lineWidth = S.brushSize,
                    !.gco = IF S.tool = "eraser" THEN "destination-out" ELSE "source-over"]
        dot == [cells |-> {point}, last |-> point]
    IN  IF S.tool \in {"pencil", "eraser"}
        THEN [S1 EXCEPT !.isDrawing = TRUE,
                        !.cx = [cx2 EXCEPT !.path = dot],
                        !.cv = StrokeCells(S1.cv, cx2, dot.cells)]
        ELSE drawPreviewShape([S1 EXCEPT !.isDrawing = TRUE,
                                         !.cx = cx2,
                                         !.shapeStart = point,
                                         !.shapeSnapshot = pushed.snapshot], point)

handlePointerDown(S, point) ==
    LET pushed == pushSnapshotForUndo(S)
        S1 == pushed.s
        cx2 == [SetStrokeStyle(S1.cx, S.color) EXCEPT
                    !.lineWidth = S.brushSize,
                    !.gco = IF S.tool = "eraser" THEN "destination-out" ELSE "source-over"]
        dot == [cells |-> {point}, last |-> point]
    IN  IF S.tool = "fill" THEN floodFill(S1, point)
        ELSE IF S.tool \in {"pencil", "eraser"}
        THEN [S1 EXCEPT !.isDrawing = TRUE,
                        !.cx = [cx2 EXCEPT !.path = dot],
                        !.cv = StrokeCells(S1.cv, cx2, dot.cells)]
        ELSE drawPreviewShape([S1 EXCEPT !.isDrawing = TRUE,
                                         !.cx = cx2,
                                         !.shapeStart = point,
                                         !.shapeSnapshot = pushed.snapshot], point)

\* handlePointerMove taking a snapshot on every move of a gesture.
handlePointerMovePush(S, point) ==
    IF ~S.isDrawing THEN S
    ELSE
    LET P == pushSnapshotForUndo(S).s
    IN  IF P.tool \in ShapeTools THEN drawPreviewShape(P, point)
        ELSE
        LET cx1 == [P.cx EXCEPT !.lineWidth = P.brushSize]
            cx2 == IF P.tool # "eraser" THEN SetStrokeStyle(cx1, P.color) ELSE cx1
            path == IF cx2.path.last = Null
                    THEN [cells |-> cx2.path.cells, last |-> point]
                    ELSE [cells |-> cx2.path.cells \cup LineCells(cx2.path.last, point),
                          last |-> point]
        IN  [P EXCEPT !.cx = [cx2 EXCEPT !.path = path],
                      !.cv = StrokeCells(P.cv, cx2, path.cells)]

handlePointerMove(S, point) ==
    IF ~S.isDrawing THEN S
    ELSE IF S.tool \in ShapeTools THEN drawPreviewShape(S, point)
    ELSE
    LET cx1 == [S.cx EXCEPT !.lineWidth = S.brushSize]
        cx2 == IF S.tool # "eraser" THEN SetStrokeStyle(cx1, S.color) ELSE cx1
        path == IF cx2.path.last = Null
                THEN [cells |-> cx2.path.cells, last |-> point]
                ELSE [cells |-> cx2.path.cells \cup LineCells(cx2.path.last, point),
                      last |-> point]
    IN  [S EXCEPT !.cx = [cx2 EXCEPT !.path = path],
                  !.cv = StrokeCells(S.cv, cx2, path.cells)]

handlePointerUp(S, point) ==
    IF S.tool \in ShapeTools THEN stopDrawing(drawPreviewShape(S, point))
    ELSE stopDrawing(S)

handlePointerLeave(S) == stopDrawing(S)

handlePointerCancel(S) == stopDrawing(S)

\* The undo effect taking the oldest snapshot (history.shift()).
undoEffectOldest(S) ==
    IF S.history = <<>> THEN S
    ELSE [S EXCEPT !.history = Tail(S.history),
                   !.cx = Restore(SetIdentity(Save(S.cx))),
                   !.cv = PutImageData(ClearRect(S.cv), S.history[1])]

\* The undo effect without the test of what history.pop() returned: the
\* buffer is cleared before putImageData(undefined) throws.
undoEffectNoCheck(S) ==
    IF S.history = <<>>
    THEN [S EXCEPT !.cx = SetIdentity(Save(S.cx)), !.cv = ClearRect(S.cv)]
    ELSE [S EXCEPT !.history = SubSeq(S.history, 1, Len(S.history) - 1),
                   !.cx = Restore(SetIdentity(Save(S.cx))),
                   !.cv = PutImageData(ClearRect(S.cv), S.history[Len(S.history)])]

\* The effect on [undoSignal], run after the signal was incremented.
undoEffect(S) ==
    IF S.history = <<>> THEN S
    ELSE LET previous == S.history[Len(S.history)]
         IN  [S EXCEPT !.history = SubSeq(S.history, 1, Len(S.history) - 1),
                       !.cx = Restore(SetIdentity(Save(S.cx))),
                       !.cv = PutImageData(ClearRect(S.cv), previous)]

\* The effect on [clearSignal]; it also runs once when the component mounts.
clearEffect(S) ==
    [S EXCEPT !.cx = Restore(SetIdentity(Save(S.cx))),
              !.cv = FillRect(ClearRect(S.cv), S.cx, OpaqueWhite),
              !.history = <<>>]

\* Effects without dependency arrays: both run after every render.
useEffectEveryRender(S, clearChanged, undoChanged, signal) ==
    IF signal # 0 THEN undoEffect(clearEffect(S)) ELSE clearEffect(S)

\* What React runs after a render of the mounted component: the clear effect
\* when clearSignal differs from its value at the previous render, then the
\* undo effect when undoSignal (now signal) differs; the undo effect returns
\* at once while the signal is 0.  The signals only ever grow by one, so the
\* model keeps of each signal whether it is 0 or positive.
useEffect(S, clearChanged, undoChanged, signal) ==
    LET S1 == IF clearChanged THEN clearEffect(S) ELSE S
    IN  IF undoChanged /\ signal # 0 THEN undoEffect(S1) ELSE S1

\* resizeToContainer stretching the old content over the new buffer.
resizeToContainerStretch(S, rw, rh, ratio) ==
    LET readable == S.cv.w > 0 /\ S.cv.h > 0
        fresh == [w |-> rw * ratio, h |-> rh * ratio,
                  data |-> Blank(rw * ratio, rh * ratio, Transparent).data,
                  cssW |-> rw, cssH |-> rh]
        cx1 == FreshContext(ratio)
    IN  [S EXCEPT !.cx = Restore(SetIdentity(Save(cx1))),
                  !.cv = IF readable THEN DrawImage(fresh, cx1, BufferOf(S.cv))
                         ELSE FillRect(fresh, cx1, OpaqueWhite)]

\* resizeToContainer painting the new buffer white without writing the old
\* pixels back.
resizeToContainerWhite(S, rw, rh, ratio) ==
    LET fresh == [w |-> rw * ratio, h |-> rh * ratio,
                  data |-> Blank(rw * ratio, rh * ratio, Transparent).data,
                  cssW |-> rw, cssH |-> rh]
        cx1 == FreshContext(ratio)
    IN  [S EXCEPT !.cx = Restore(SetIdentity(Save(cx1))),
                  !.cv = FillRect(fresh, cx1, OpaqueWhite)]

\* resizeToContainer ending the gesture under way and emptying the history.
resizeToContainerReset(S, rw, rh, ratio) ==
    LET readable == S.cv.w > 0 /\ S.cv.h > 0
        imageData == BufferOf(S.cv)
        fresh == [w |-> rw * ratio, h |-> rh * ratio,
                  data |-> Blank(rw * ratio, rh * ratio, Transparent).data,
                  cssW |-> rw, cssH |-> rh]
        cx1 == FreshContext(ratio)
    IN  [S EXCEPT !.cx = Restore(SetIdentity(Save(cx1))),
                  !.cv = IF readable THEN PutImageData(fresh, imageData)
                         ELSE FillRect(fresh, cx1, OpaqueWhite),
                  !.history = <<>>,
                  !.isDrawing = FALSE,
                  !.shapeStart = Null,
                  !.shapeSnapshot = Null]

\* resizeToContainer with wrapper.getBoundingClientRect() = rw x rh and
\* window.devicePixelRatio || 1 = ratio.
resizeToContainer(S, rw, rh, ratio) ==
    LET readable == S.cv.w > 0 /\ S.cv.h > 0
        imageData == BufferOf(S.cv)
        fresh == [w |-> rw * ratio, h |-> rh * ratio,
                  data |-> Blank(rw * ratio, rh * ratio, Transparent).data,
                  cssW |-> rw, cssH |-> rh]
        cx1 == FreshContext(ratio)
    IN  [S EXCEPT !.cx = Restore(SetIdentity(Save(cx1))),
                  !.cv = IF readable THEN PutImageData(fresh, imageData)
                         ELSE FillRect(fresh, cx1, OpaqueWhite)]

\* canvas.toDataURL("image/png"): a lossless encoding of the whole buffer.
toDataURL(S) == BufferOf(S.cv)

\* image.onload of loadFromDataURL for the decoded image.
imageOnload(S, image) ==
    [S EXCEPT !.cx = Restore(SetIdentity(Save(S.cx))),
              !.cv = DrawImage(ClearRect(S.cv), S.cx, image),
              !.history = <<>>]

(***************************************************************************)
(* The state machine                                                       *)
(***************************************************************************)

Cur ==
    [cv |-> canvas, cx |-> ctx, history |-> history, isDrawing |-> isDrawing,
     shapeStart |-> shapeStart, shapeSnapshot |-> shapeSnapshot,
     tool |-> tool, color |-> color, brushSize |-> brushSize]

Apply(S) ==
    /\ canvas' = S.cv
    /\ ctx' = S.cx
    /\ history' = S.history
    /\ isDrawing' = S.isDrawing
    /\ shapeStart' = S.shapeStart
    /\ shapeSnapshot' = S.shapeSnapshot
    /\ tool' = S.tool
    /\ color' = S.color
    /\ brushSize' = S.brushSize

\* A <canvas> element is 300 x 150 transparent pixels until it is sized.
DefaultCanvas ==
    [w |-> 300, h |-> 150, data |-> [i \in 0..44999 |-> Transparent],
     cssW |-> 300, cssH |-> 150]

\* The component after its mount effects: the first effect sizes the canvas
\* (resizeToContainer), then the clear effect and the undo effect run once,
\* with clearSignal = undoSignal = 0 (the undo effect returns at once).
Mounted(rw, rh, ratio, t, c, b) ==
    clearEffect(resizeToContainer(
        [cv |-> DefaultCanvas, cx |-> FreshContext(1), history |-> <<>>,
         isDrawing |-> FALSE, shapeStart |-> Null, shapeSnapshot |-> Null,
         tool |-> t, color |-> c, brushSize |-> b], rw, rh, ratio))

\* The history variables: the last event and its point; the gesture under
\* way or just ended, <<[pre, start]>> with the buffer before its
\* pointer-down, Null once another kind of event has intervened; the image
\* the last onload drew, the buffer before the last resize, or the snapshot
\* the last undo popped (Null when the history was empty); the buffers before each gesture of the current run
\* of gestures, and the number of undos since.
Obs(ev, pt, g, img, run, undos) ==
    [ev |-> ev, pt |-> pt, g |-> g, img |-> img, run |-> run, undos |-> undos]

NoProbe == [fn |-> "none"]

InitWith(S) ==
    /\ canvas = S.cv
    /\ ctx = S.cx
    /\ history = S.history
    /\ isDrawing = S.isDrawing
    /\ shapeStart = S.shapeStart
    /\ shapeSnapshot = S.shapeSnapshot
    /\ tool = S.tool
    /\ color = S.color
    /\ brushSize = S.brushSize
    /\ clearSignal = 0
    /\ undoSignal = 0
    /\ pending = {}
    /\ obs = Obs("mount", Null, Null, Null, <<>>, 0)

\* onPointerDown at display cell p; track says whether the run of gestures
\* is recorded.
PointerDown(p, track) ==
    /\ Apply(handlePointerDown(Cur, p))
    /\ obs' = Obs("down", p,
                  IF isDrawing THEN Null ELSE <<[pre |-> BufferOf(canvas), start |-> p]>>,
                  Null,
                  IF ~track THEN <<>>
                  ELSE IF obs.undos > 0 THEN <<BufferOf(canvas)>>
                  ELSE Append(obs.run, BufferOf(canvas)),
                  0)
    /\ UNCHANGED <<clearSignal, undoSignal, pending, probe>>

PointerMove(p) ==
    /\ Apply(handlePointerMove(Cur, p))
    /\ obs' = Obs("move", p, obs.g, Null, obs.run, obs.undos)
    /\ UNCHANGED <<clearSignal, undoSignal, pending, probe>>

PointerUp(p) ==
    /\ Apply(handlePointerUp(Cur, p))
    /\ obs' = Obs("up", p, obs.g, Null, obs.run, obs.undos)
    /\ UNCHANGED <<clearSignal, undoSignal, pending, probe>>

PointerLeave ==
    /\ Apply(handlePointerLeave(Cur))
    /\ obs' = Obs("leave", Null, obs.g, Null, obs.run, obs.undos)
    /\ UNCHANGED <<clearSignal, undoSignal, pending, probe>>

PointerCancel ==
    /\ Apply(handlePointerCancel(Cur))
    /\ obs' = Obs("cancel", Null, obs.g, Null, obs.run, obs.undos)
    /\ UNCHANGED <<clearSignal, undoSignal, pending, probe>>

\* A click on "Fortryd": setUndoSignal(signal + 1), then the undo effect.
Undo(track) ==
    /\ undoSignal' = 1
    /\ Apply(useEffect(Cur, FALSE, TRUE, 1))
    /\ obs' = Obs("undo", Null, Null,
                  IF history = <<>> THEN Null ELSE <<history[Len(history)]>>,
                  obs.run, IF track THEN obs.undos + 1 ELSE 0)
    /\ UNCHANGED <<clearSignal, pending, probe>>

\* A click on "Ryd": setClearSignal(signal + 1), then the clear effect.
Clear ==
    /\ clearSignal' = 1
    /\ Apply(useEffect(Cur, TRUE, FALSE, undoSignal))
    /\ obs' = Obs("clear", Null, Null, Null, <<>>, 0)
    /\ UNCHANGED <<undoSignal, pending, probe>>

\* The ResizeObserver or the window's resize listener calls resizeToContainer.
Resize(rw, rh, ratio) ==
    /\ Apply(resizeToContainer(Cur, rw, rh, ratio))
    /\ obs' = Obs("resize", Null, Null, <<BufferOf(canvas)>>, <<>>, 0)
    /\ UNCHANGED <<clearSignal, undoSignal, pending, probe>>

\* App: setActiveTool, setColor, setBrushSize re-render the component.
SetTool(t) ==
    /\ t # tool
    /\ Apply(useEffect([Cur EXCEPT !.tool = t], FALSE, FALSE, undoSignal))
    /\ obs' = Obs("props", Null, Null, Null, obs.run, obs.undos)
    /\ UNCHANGED <<clearSignal, undoSignal, pending, probe>>

SetColor(c) ==
    /\ c # color
    /\ Apply(useEffect([Cur EXCEPT !.color = c], FALSE, FALSE, undoSignal))
    /\ obs' = Obs("props", Null, Null, Null, obs.run, obs.undos)
    /\ UNCHANGED <<clearSignal, undoSignal, pending, probe>>

SetBrushSize(b) ==
    /\ b # brushSize
    /\ Apply(useEffect([Cur EXCEPT !.brushSize = b], FALSE, FALSE, undoSignal))
    /\ obs' = Obs("props", Null, Null, Null, obs.run, obs.undos)
    /\ UNCHANGED <<clearSignal, undoSignal, pending, probe>>

\* loadFromDataURL(dataURL): the image is decoded in the background.
LoadFromDataURL(image) ==
    /\ pending' = pending \cup {image}
    /\ obs' = Obs("load", Null, Null, Null, <<>>, 0)
    /\ UNCHANGED <<canvas, ctx, history, isDrawing, shapeStart, shapeSnapshot,
                   tool, color, brushSize, clearSignal, undoSignal, probe>>

\* toDataURL() and, at once, loadFromDataURL of what it returned.  A canvas
\* without pixels encodes to "data:,", which never loads.
SaveAndLoad ==
    /\ canvas.w > 0 /\ canvas.h > 0
    /\ LoadFromDataURL(toDataURL(Cur))

ImageOnload(image) ==
    /\ image \in pending
    /\ pending' = pending \ {image}
    /\ Apply(imageOnload(Cur, image))
    /\ obs' = Obs("loaded", Null, Null, <<image>>, <<>>, 0)
    /\ UNCHANGED <<clearSignal, undoSignal, probe>>

(***************************************************************************)
(* colorsMatch as a function of two colours                                *)
(***************************************************************************)

HexBlack == Hex(TRUE, <<0, 0, 0, 0, 0, 0>>)
HexWhite == Hex(TRUE, <<15, 15, 15, 15, 15, 15>>)

ChannelValues == {0, 26, 27, 255}
ProbeColors == [1..4 -> ChannelValues]

InitColor ==
    /\ InitWith(Mounted(1, 1, 1, "pencil", HexBlack, 1))
    /\ probe \in [fn : {"colorsMatch"}, a : ProbeColors, b : ProbeColors,
                  done : {FALSE}, ab : {FALSE}, ba : {FALSE}, aa : {FALSE}]

ProbeColorsMatch ==
    /\ probe.fn = "colorsMatch"
    /\ ~probe.done
    /\ probe' = [probe EXCEPT !.done = TRUE,
                              !.ab = colorsMatch(probe.a, probe.b),
                              !.ba = colorsMatch(probe.b, probe.a),
                              !.aa = colorsMatch(probe.a, probe.a)]
    /\ UNCHANGED <<canvas, ctx, history, isDrawing, shapeStart, shapeSnapshot, tool,
                   color, brushSize, clearSignal, undoSignal, pending, obs>>

NextColor == ProbeColorsMatch

SpecColor == InitColor /\ [][NextColor]_vars

\* C9: colorsMatch with tolerance 26 is reflexive and symmetric, and it
\* compares all four channels: two colours more than 26 apart in any one
\* channel, alpha included, do not match.
C9_ReflexiveSymmetric ==
    probe.fn = "colorsMatch" /\ probe.done =>
        /\ probe.aa
        /\ probe.ab = probe.ba
        /\ (\E i \in 1..4 : probe.a[i] - probe.b[i] > 26 \/ probe.b[i] - probe.a[i] > 26)
               => ~probe.ab

C9_Witness ==
    /\ probe.fn = "colorsMatch" /\ probe.done
    /\ probe.a # probe.b
    /\ probe.ab /\ probe.ba

(***************************************************************************)
(* Flood fill on arbitrary buffers                                         *)
(***************************************************************************)

\* Buffer colours 20 apart: each matches its neighbour in the list within
\* the tolerance, the first and the last do not match.
BufferColors == {<<255, 255, 255, 255>>, <<235, 235, 235, 255>>, <<215, 215, 215, 255>>}
FillColors == {HexBlack, Hex(TRUE, <<13, 7, 13, 7, 13, 7>>), Hex(TRUE, <<14, 11, 14, 11, 14, 11>>)}
\* The buffers filled: every colouring of 3 x 2 pixels with the three greys,
\* and of 2 x 2 pixels with those, opaque black and transparent (erased).
FillCases ==
    {[size |-> <<3, 2>>, colors |-> BufferColors],
     [size |-> <<2, 2>>, colors |-> BufferColors \cup {<<0, 0, 0, 255>>, Transparent}]}
MaxFills == 2

InitFill ==
    /\ probe = NoProbe
    /\ \E case \in FillCases, c \in FillColors :
         \E data \in [0..(case.size[1] * case.size[2] - 1) -> case.colors] :
            InitWith([Mounted(case.size[1], case.size[2], 1, "fill", c, 1)
                          EXCEPT !.cv.data = data])

NextFill ==
    \E p \in Pixels(canvas.cssW, canvas.cssH) :
        /\ Len(history) < MaxFills
        /\ PointerDown(p, FALSE)

SpecFill == InitFill /\ [][NextFill]_vars

\* Two colours within the tolerance of each other on every channel.
Near(c1, c2) == \A i \in 1..4 : c1[i] - c2[i] <= 26 /\ c2[i] - c1[i] <= 26

Adjacent4(p, q) ==
    \/ p[1] = q[1] /\ (p[2] = q[2] + 1 \/ q[2] = p[2] + 1)
    \/ p[2] = q[2] /\ (p[1] = q[1] + 1 \/ q[1] = p[1] + 1)

RECURSIVE Grow(_, _, _)
\* The pixels of img reachable from the set by steps between 4-adjacent
\* pixels whose colour is near T.
Grow(set, img, T) ==
    LET more == {q \in Pixels(img.w, img.h) :
                    /\ Near(img.data[Idx(img.w, q)], T)
                    /\ \E p \in set : Adjacent4(p, q)}
    IN  IF more \subseteq set THEN set ELSE Grow(set \cup more, img, T)

Component(img, seed) == Grow({seed}, img, img.data[Idx(img.w, seed)])

\* The last event was a pointer-down of the fill tool on an idle engine.
FillJustRan == obs.ev = "down" /\ tool = "fill" /\ obs.g # Null

\* C4: a fill whose seed colour T does not match the fill colour F sets to F
\* exactly the 4-connected component of the seed among the pixels matching T,
\* and leaves every other pixel as it was.
C4_FillsComponent ==
    FillJustRan =>
        LET pre == obs.g[1].pre
            seed == obs.pt
            F == CssColor(color)
        IN  ~Near(pre.data[Idx(pre.w, seed)], F) =>
               \A q \in Pixels(pre.w, pre.h) :
                   canvas.data[Idx(pre.w, q)] =
                       IF q \in Component(pre, seed) THEN F ELSE pre.data[Idx(pre.w, q)]

\* A fill that painted the seed's component and left a matching pixel that
\* touches it only diagonally, and a pixel near a painted one but not near T.
C4_Witness ==
    /\ FillJustRan
    /\ LET pre == obs.g[1].pre
           comp == Component(pre, obs.pt)
       IN  /\ ~Near(pre.data[Idx(pre.w, obs.pt)], CssColor(color))
           /\ Cardinality(comp) >= 2
           /\ \E q \in Pixels(pre.w, pre.h) \ comp :
                 /\ Near(pre.data[Idx(pre.w, q)], pre.data[Idx(pre.w, obs.pt)])
                 /\ \E p \in comp : Abs(p[1] - q[1]) = 1 /\ Abs(p[2] - q[2]) = 1
           /\ \E p \in comp : pre.data[Idx(pre.w, p)] # pre.data[Idx(pre.w, obs.pt)]

C5_NoOp ==
    FillJustRan =>
        (Near(obs.g[1].pre.data[Idx(obs.g[1].pre.w, obs.pt)], CssColor(color))
            => BufferOf(canvas) = obs.g[1].pre)

\* C5: a fill whose seed already matches the fill colour changes no pixel,
\* and a second fill at the same seed with the same colour right after a
\* fill leaves the buffer as the first fill left it.
C5_Idempotent ==
    [][/\ C5_NoOp'
       /\ (obs.ev = "down" /\ obs'.ev = "down" /\ tool = "fill" /\ obs'.pt = obs.pt)
              => canvas' = canvas]_vars

\* A second fill at the seed of a first fill that painted pixels.
C5_Witness ==
    /\ FillJustRan
    /\ Len(history) = 2
    /\ history[1] # history[2]
    /\ obs.g[1].pre = history[2]
    /\ canvas.data[Idx(canvas.w, obs.pt)] = CssColor(color)
    /\ \E q \in Pixels(canvas.w, canvas.h) :
          /\ canvas.data[Idx(canvas.w, q)] # CssColor(color)
          /\ Near(canvas.data[Idx(canvas.w, q)], CssColor(color))
          /\ Adjacent4(q, obs.pt)

(***************************************************************************)
(* Long runs of gestures and undos                                         *)
(*                                                                         *)
(* The gestures of SpecHist draw one fixed sequence of pictures on a 3 x 2 *)
(* canvas: the pixels are repainted one by one, in index order, with the   *)
(* next colour of HistCycle, so that thirty consecutive pictures are       *)
(* pairwise distinct and the history is a window of them.  Each picture is *)
(* drawn by whatever tool, colour and points produce it.                   *)
(***************************************************************************)

HexRed == Hex(TRUE, <<15, 0, 0>>)
HexGreen == Hex(TRUE, <<0, 15, 0>>)
HexShortWhite == Hex(TRUE, <<15, 15, 15>>)

HistCycle == <<OpaqueWhite, <<0, 0, 0, 255>>, <<255, 0, 0, 255>>, Transparent, <<0, 255, 0, 255>>>>
HistColors == {HexBlack, HexRed, HexGreen, HexShortWhite}
MaxGestures == 30
MaxUndos == 26

After(c) ==
    LET i == CHOOSE k \in 1..Len(HistCycle) : HistCycle[k] = c
    IN  HistCycle[(i % Len(HistCycle)) + 1]

NextFrame(img) ==
    LET lead == img.data[0]
        rest == {i \in DOMAIN img.data : img.data[i] # lead}
    IN  IF rest = {} THEN [img EXCEPT !.data[0] = After(lead)]
        ELSE [img EXCEPT !.data[CHOOSE i \in rest : \A j \in rest : i <= j] = lead]

\* The buffer shows the picture that follows the one before the gesture.
OnChain == obs.g # Null /\ BufferOf(canvas) = NextFrame(obs.g[1].pre)

InitHist ==
    /\ probe = NoProbe
    /\ InitWith(Mounted(3, 2, 1, "pencil", HexBlack, 1))

NextHist ==
    \/ \E t \in Tools : ~isDrawing /\ obs.undos = 0 /\ SetTool(t)
    \/ \E c \in HistColors : ~isDrawing /\ obs.undos = 0 /\ SetColor(c)
    \/ \E p \in Pixels(canvas.cssW, canvas.cssH) :
          /\ ~isDrawing /\ obs.undos = 0 /\ Len(obs.run) < MaxGestures
          /\ PointerDown(p, TRUE)
          /\ OnChain'
    \/ \E p \in Pixels(canvas.cssW, canvas.cssH) : isDrawing /\ PointerMove(p) /\ OnChain'
    \/ \E p \in Pixels(canvas.cssW, canvas.cssH) : isDrawing /\ PointerUp(p) /\ OnChain'
    \/ /\ ~isDrawing /\ obs.run # <<>> /\ obs.undos < MaxUndos
       /\ obs.ev \in {"down", "up", "undo"}
       /\ Undo(TRUE)

SpecHist == InitHist /\ [][NextHist]_vars

\* C1: after N gestures (N <= 25) and then N undos, the buffer is the buffer
\* as it was before the first of those N gestures -- for the last N of the
\* gestures of the run, whatever the history held before them.
C1_UndoRestores ==
    obs.undos >= 1 /\ obs.undos <= 25 /\ obs.undos <= Len(obs.run) =>
        BufferOf(canvas) = obs.run[Len(obs.run) - obs.undos + 1]

\* Twelve undos after twenty gestures, all by different tools' strokes.
C1_Witness ==
    /\ Len(obs.run) = 20 /\ obs.undos = 12 /\ obs.ev = "undo"
    /\ Len(history) = 8
    /\ BufferOf(canvas) = obs.run[9]
    /\ BufferOf(canvas) # obs.run[20]

\* C3: a push onto a history of 25 snapshots discards the oldest and keeps
\* the other 24 in order, and undo pops the newest: after n gestures from an
\* empty history, exactly the first min(n, 25) undos change the buffer, the
\* k-th of them leaving the buffer as it was before the k-th last gesture
\* (after 30 gestures the 25th leaves it as before the 6th), and every later
\* undo changes nothing.
C3_EvictOldestPopNewest ==
    [][/\ (obs'.ev = "down" /\ Len(history) = 25) =>
              history' = Append(Tail(history), BufferOf(canvas))
       /\ obs'.ev = "undo" =>
              LET n == Len(obs'.run)
                  k == obs'.undos
              IN  IF k <= n /\ k <= 25
                  THEN /\ canvas' # canvas
                       /\ BufferOf(canvas') = obs'.run[n - k + 1]
                       /\ history' = SubSeq(history, 1, Len(history) - 1)
                  ELSE canvas' = canvas /\ history' = <<>> /\ history = <<>>]_vars

\* Thirty gestures, then twenty-six undos: the buffer is the one before the
\* sixth gesture and the history is empty.
C3_Witness ==
    /\ Len(obs.run) = 30 /\ obs.undos = 26 /\ obs.ev = "undo"
    /\ history = <<>>
    /\ BufferOf(canvas) = obs.run[6]
    /\ BufferOf(canvas) # obs.run[5]

(***************************************************************************)
(* The length of the history under every interleaving of events            *)
(***************************************************************************)

\* A canvas of one pixel drawn on in white, so that a state is told apart by
\* the length of its history and by where the handlers stand; every event
\* may come at any time (a second pointer-down during a stroke, an undo or a
\* clear during a gesture, a load still decoding).
InitCap == probe = NoProbe /\ InitWith(Mounted(1, 1, 1, "pencil", HexWhite, 1))

NextCap ==
    \/ \E t \in Tools \ {"eraser"} : SetTool(t)
    \/ PointerDown(<<0, 0>>, FALSE)
    \/ PointerMove(<<0, 0>>)
    \/ PointerUp(<<0, 0>>)
    \/ PointerLeave
    \/ PointerCancel
    \/ Undo(FALSE)
    \/ Clear
    \/ Resize(1, 1, 1)
    \/ SaveAndLoad
    \/ \E image \in pending : ImageOnload(image)

SpecCap == InitCap /\ [][NextCap]_vars

\* C2: the history never holds more than 25 snapshots.
C2_HistoryAtMost25 == Len(history) <= 25

\* A pointer-down has pushed onto a history that was full.
C2_Witness ==
    /\ obs.ev = "down"
    /\ Len(history) = 25
    /\ \A i \in 1..25 : history[i] = BufferOf(canvas)

(***************************************************************************)
(* Shape gestures                                                          *)
(***************************************************************************)

\* The surfaces a shape gesture starts on: a display of 3 x 3 cells at ratio
\* 1 or of 2 x 2 cells at ratio 2, showing a stored drawing that App loaded
\* after the mount (white, or one with black and erased pixels).
Speckled(w, h) ==
    Image(w, h, [i \in 0..(w * h - 1) |->
                    IF i % 4 = 0 THEN <<0, 0, 0, 255>>
                    ELSE IF i % 4 = 3 THEN Transparent
                    ELSE OpaqueWhite])

ShapeCases ==
    {[rw |-> 3, rh |-> 3, ratio |-> 1, img |-> Blank(3, 3, OpaqueWhite)],
     [rw |-> 3, rh |-> 3, ratio |-> 1, img |-> Speckled(3, 3)],
     [rw |-> 2, rh |-> 2, ratio |-> 2, img |-> Speckled(4, 4)]}

ShapeColors == {HexBlack, HexRed}
ShapeBrushes == {1, 2}

InitShape ==
    /\ probe = NoProbe
    /\ \E c \in ShapeCases :
          InitWith(imageOnload(Mounted(c.rw, c.rh, c.ratio, "line", HexBlack, 1), c.img))

\* Tool, colour and brush size are chosen before a gesture; a gesture is a
\* pointer-down, pointer-moves and a pointer-up, and is undone before the
\* next one starts.
NextShape ==
    \/ \E t \in ShapeTools : ~isDrawing /\ history = <<>> /\ SetTool(t)
    \/ \E c \in ShapeColors : ~isDrawing /\ history = <<>> /\ SetColor(c)
    \/ \E b \in ShapeBrushes : ~isDrawing /\ history = <<>> /\ SetBrushSize(b)
    \/ \E p \in Pixels(canvas.cssW, canvas.cssH) :
          ~isDrawing /\ history = <<>> /\ PointerDown(p, FALSE)
    \/ \E p \in Pixels(canvas.cssW, canvas.cssH) : isDrawing /\ PointerMove(p)
    \/ \E p \in Pixels(canvas.cssW, canvas.cssH) : isDrawing /\ PointerUp(p)
    \/ ~isDrawing /\ obs.ev = "up" /\ Undo(FALSE)

SpecShape == InitShape /\ [][NextShape]_vars

\* The display cells of the shape that tool t defines from a to b.
ShapeCells(t, a, b) ==
    IF t = "line" THEN LineCells(a, b)
    ELSE IF t = "rectangle" THEN RectCells(a, b)
    ELSE EllipseCells(a, b)

\* The buffer pre with one shape stroked on it in colour hex, line width lw,
\* on a display of ratio k.
OneShape(pre, t, a, b, hex, lw, k) ==
    LET covered == ToBuffer(Brush(ShapeCells(t, a, b), lw), k)
    IN  Image(pre.w, pre.h,
              [i \in DOMAIN pre.data |->
                  IF <<i % pre.w, i \div pre.w>> \in covered THEN CssColor(hex)
                  ELSE pre.data[i]])

\* C6: after the pointer-up of a gesture made of a pointer-down, any number
\* of pointer-moves and that pointer-up, the buffer is the buffer from before
\* the pointer-down with the one shape from the start point to the release
\* point on it; nothing of a preview frame remains.
C6_ExactlyFinalShape ==
    (obs.ev = "up" /\ obs.g # Null) =>
        BufferOf(canvas) =
            OneShape(obs.g[1].pre, tool, obs.g[1].start, obs.pt, color, brushSize,
                     ctx.scale)

\* A gesture released where it started, after previews that painted pixels
\* the final shape does not cover.
C6_Witness ==
    /\ obs.ev = "up" /\ obs.g # Null
    /\ tool = "line" /\ brushSize = 1
    /\ obs.g[1].start = <<0, 0>> /\ obs.pt = <<0, 0>>
    /\ canvas.w = 3
    /\ obs.g[1].pre = Blank(3, 3, OpaqueWhite)
    /\ canvas.data[0] = <<0, 0, 0, 255>>
    /\ \A i \in 1..8 : canvas.data[i] = OpaqueWhite

(***************************************************************************)
(* Resizing                                                                *)
(***************************************************************************)

\* The boxes the wrapper takes (a hidden wrapper measures 0 x 0) and the
\* device pixel ratios.
WrapperSizes == {<<0, 0>>, <<1, 1>>, <<2, 1>>, <<2, 2>>, <<3, 2>>}
Ratios == {1, 2}

InitResize == probe = NoProbe /\ InitWith(Mounted(2, 1, 1, "pencil", HexBlack, 1))

\* Taps of the pencil, one between two clears, and resizes at any time
\* between them.
NextResize ==
    \/ \E p \in Pixels(canvas.cssW, canvas.cssH) :
          ~isDrawing /\ history = <<>> /\ PointerDown(p, FALSE)
    \/ isDrawing /\ PointerUp(obs.pt)
    \/ ~isDrawing /\ history # <<>> /\ Clear
    \/ \E size \in WrapperSizes, ratio \in Ratios :
          ~isDrawing /\ Resize(size[1], size[2], ratio)

SpecResize == InitResize /\ [][NextResize]_vars

\* C7: after a resize, every pixel inside both the old and the new extent
\* has the value it had before, at the same coordinates.
C7_ResizeKeepsPixels ==
    obs.ev = "resize" =>
        LET before == obs.img[1]
        IN  \A p \in Pixels(Min(before.w, canvas.w), Min(before.h, canvas.h)) :
               canvas.data[Idx(canvas.w, p)] = before.data[Idx(before.w, p)]

\* A buffer with a black pixel at (0,0) and a white one beside it, resized
\* larger in both extents.
C7_Witness ==
    /\ obs.ev = "resize"
    /\ obs.img[1].w = 2 /\ obs.img[1].h = 1
    /\ canvas.w = 6 /\ canvas.h = 4
    /\ obs.img[1].data[0] = <<0, 0, 0, 255>>
    /\ obs.img[1].data[1] = OpaqueWhite
    /\ canvas.data[0] = <<0, 0, 0, 255>>
    /\ canvas.data[1] = OpaqueWhite
    /\ canvas.data[2] = Transparent

(***************************************************************************)
(* The whole component: every event at any time                            *)
(***************************************************************************)

Boxes == {<<1, 1>>}
MaxSnapshots == 1
MaxPending == 1

Init == probe = NoProbe /\ InitWith(Mounted(1, 1, 1, "pencil", HexBlack, 1))

Next ==
    \/ \E t \in Tools : SetTool(t)
    \/ \E p \in Pixels(canvas.cssW, canvas.cssH) :
          Len(history) < MaxSnapshots /\ PointerDown(p, FALSE)
    \/ \E p \in Pixels(canvas.cssW, canvas.cssH) : PointerMove(p)
    \/ \E p \in Pixels(canvas.cssW, canvas.cssH) : PointerUp(p)
    \/ PointerLeave
    \/ PointerCancel
    \/ Undo(FALSE)
    \/ Clear
    \/ \E box \in Boxes : Resize(box[1], box[2], 1)
    \/ Cardinality(pending) < MaxPending /\ SaveAndLoad
    \/ \E image \in pending : ImageOnload(image)

Spec == Init /\ [][Next]_vars

\* C10: after a clear signal every pixel of the buffer is opaque white and
\* the history is empty.
C10_ClearLeavesWhite ==
    obs.ev = "clear" =>
        /\ \A i \in DOMAIN canvas.data : canvas.data[i] = OpaqueWhite
        /\ history = <<>>

\* C11: an undo signal that arrives while the history is empty changes
\* neither the buffer nor the history nor the gesture state (nor the
\* drawing state of the context).
C11_UndoOnEmptyNoOp ==
    [][(obs'.ev = "undo" /\ history = <<>>) =>
           UNCHANGED <<canvas, ctx, history, isDrawing, shapeStart, shapeSnapshot>>]_vars

\* An undo found the history empty in the middle of a stroke that had
\* painted the pixel.
C11_Witness ==
    /\ obs.ev = "undo" /\ obs.img = Null
    /\ history = <<>>
    /\ isDrawing
    /\ canvas.data[0] = <<0, 0, 0, 255>>

\* C13: a pointer-down pushes exactly one snapshot, the buffer as it was
\* before the handler touched a pixel (dropping the oldest one from a full
\* history); pointer-move, pointer-up, pointer-leave and pointer-cancel push
\* nothing.  So the history gains one snapshot along a gesture, for every tool.
C13_OneSnapshotPerGesture ==
    [][/\ obs'.ev = "down" =>
              history' = Append(IF Len(history) >= 25 THEN Tail(history) ELSE history,
                                BufferOf(canvas))
       /\ obs'.ev \in {"move", "up", "leave", "cancel"} => history' = history]_vars

\* An eraser gesture ended by pointer-cancel: the history holds the buffer
\* from before the gesture, and the buffer has changed since.
C13_Witness ==
    /\ obs.ev = "cancel" /\ obs.g # Null
    /\ tool = "eraser"
    /\ history = <<obs.g[1].pre>>
    /\ BufferOf(canvas) # obs.g[1].pre

\* C14: after a pointer-leave, a pointer-cancel or a pointer-up, from any
\* state, no gesture is under way (not drawing, no start point, no preview
\* snapshot) and the composite operation is source-over; a pointer-leave or
\* pointer-cancel leaves every pixel as the interrupted gesture left it.
C14_StopRestoresDefaults ==
    [][/\ obs'.ev \in {"leave", "cancel", "up"} =>
              /\ ~isDrawing'
              /\ shapeStart' = Null /\ shapeSnapshot' = Null
              /\ ctx'.gco = "source-over"
       /\ obs'.ev \in {"leave", "cancel"} => canvas' = canvas]_vars

\* An eraser stroke interrupted by pointer-leave: the erased pixel stays
\* erased and the composite operation is back to source-over.
C14_Witness ==
    /\ obs.ev = "leave" /\ obs.g # Null
    /\ tool = "eraser"
    /\ obs.g[1].pre.data[0] = OpaqueWhite
    /\ canvas.data[0] = Transparent
    /\ ~isDrawing /\ ctx.gco = "source-over"

(***************************************************************************)
(* Saving and loading                                                      *)
(***************************************************************************)

\* A display of 2 x 1 cells drawn on with the pencil and the eraser; the
\* drawing is encoded and loaded back at any time, also during a stroke.
InitLoad == probe = NoProbe /\ InitWith(Mounted(2, 1, 1, "pencil", HexBlack, 1))

NextLoad ==
    \/ \E t \in {"pencil", "eraser"} : SetTool(t)
    \/ \E p \in Pixels(canvas.cssW, canvas.cssH) :
          ~isDrawing /\ Len(history) < MaxSnapshots /\ PointerDown(p, FALSE)
    \/ \E p \in Pixels(canvas.cssW, canvas.cssH) : isDrawing /\ PointerMove(p)
    \/ \E p \in Pixels(canvas.cssW, canvas.cssH) : isDrawing /\ PointerUp(p)
    \/ Cardinality(pending) < MaxPending /\ SaveAndLoad
    \/ \E image \in pending : ImageOnload(image)

SpecLoad == InitLoad /\ [][NextLoad]_vars

\* C8: once the load of what toDataURL returned completes, every pixel of
\* the buffer has the value it had when the buffer was encoded.
C8_RoundTrip ==
    (obs.ev = "loaded" /\ obs.img[1].w = canvas.w /\ obs.img[1].h = canvas.h) =>
        BufferOf(canvas) = obs.img[1]

(***************************************************************************)
(* Renders and the two signals                                             *)
(***************************************************************************)

\* Taps on a canvas of one pixel, clicks on Fortryd and Ryd, and changes of
\* tool, colour and brush size (renders that leave both signals as they
\* are), at any time.
RenderTools == {"pencil", "eraser", "fill"}
RenderColors == {HexBlack, HexWhite}
RenderBrushes == {1, 2}
MaxTaps == 3

InitRender == probe = NoProbe /\ InitWith(Mounted(1, 1, 1, "pencil", HexBlack, 1))

NextRender ==
    \/ \E t \in RenderTools : SetTool(t)
    \/ \E c \in RenderColors : SetColor(c)
    \/ \E b \in RenderBrushes : SetBrushSize(b)
    \/ ~isDrawing /\ Len(history) < MaxTaps /\ PointerDown(<<0, 0>>, FALSE)
    \/ isDrawing /\ PointerUp(<<0, 0>>)
    \/ Undo(FALSE)
    \/ Clear

SpecRender == InitRender /\ [][NextRender]_vars

\* C12: a render in which only tool, colour or brush size changed pops
\* nothing and clears nothing; an increment of the undo signal pops at most
\* one snapshot (the newest, which becomes the buffer) and clears nothing;
\* an increment of the clear signal clears once.
C12_EdgeTriggered ==
    [][/\ obs'.ev = "props" =>
              /\ canvas' = canvas /\ history' = history
              /\ undoSignal' = undoSignal /\ clearSignal' = clearSignal
       /\ obs'.ev = "undo" =>
              /\ history' = SubSeq(history, 1, Len(history) - 1)
              /\ history # <<>> => BufferOf(canvas') = history[Len(history)]
              /\ history = <<>> => canvas' = canvas
       /\ obs'.ev = "clear" =>
              /\ history' = <<>>
              /\ \A i \in DOMAIN canvas'.data : canvas'.data[i] = canvas'.data[0]]_vars

\* A render after both signals have been incremented, with two snapshots in
\* the history and a painted pixel.
C12_Witness ==
    /\ obs.ev = "props"
    /\ undoSignal # 0 /\ clearSignal # 0
    /\ Len(history) = 2
    /\ canvas.data[0] # OpaqueWhite

(***************************************************************************)
(* The fill tool among the pointer events                                  *)
(***************************************************************************)

\* A display of 2 x 2 cells showing a stored drawing of white and black
\* pixels; the fill tool and the pencil, black, and pointer events at any
\* time.
TapImages ==
    {Image(2, 2, data) : data \in [0..3 -> {OpaqueWhite, <<0, 0, 0, 255>>}]}

InitTap ==
    /\ probe = NoProbe
    /\ \E img \in TapImages :
          InitWith(imageOnload(Mounted(2, 2, 1, "fill", HexBlack, 1), img))

NextTap ==
    \/ \E t \in {"fill", "pencil"} : SetTool(t)
    \/ \E p \in Pixels(canvas.cssW, canvas.cssH) :
          Len(history) < MaxFills /\ PointerDown(p, FALSE)
    \/ \E p \in Pixels(canvas.cssW, canvas.cssH) : PointerMove(p)
    \/ \E p \in Pixels(canvas.cssW, canvas.cssH) : PointerUp(p)

SpecTap == InitTap /\ [][NextTap]_vars

\* C15: with the fill tool and no gesture under way, a pointer-down fills
\* within the event (the buffer after it is the filled one) and leaves no
\* gesture under way; pointer-move and pointer-up then change neither the
\* buffer nor the history.
C15_FillIsOneEvent ==
    [][/\ (obs'.ev = "down" /\ tool = "fill" /\ ~isDrawing) =>
              /\ ~isDrawing' /\ shapeStart' = Null /\ shapeSnapshot' = Null
              /\ LET pre == BufferOf(canvas)
                     seed == obs'.pt
                     F == CssColor(color)
                 IN  BufferOf(canvas') =
                        IF Near(pre.data[Idx(pre.w, seed)], F) THEN pre
                        ELSE [pre EXCEPT !.data =
                                 [i \in DOMAIN pre.data |->
                                     IF <<i % pre.w, i \div pre.w>> \in Component(pre, seed)
                                     THEN F ELSE pre.data[i]]]
       /\ (obs'.ev \in {"move", "up"} /\ tool = "fill" /\ ~isDrawing) =>
              /\ canvas' = canvas /\ history' = history
              /\ ~isDrawing' /\ shapeStart' = Null /\ shapeSnapshot' = Null]_vars

\* A fill that painted two or more pixels, followed by pointer-moves and a
\* pointer-up elsewhere: the buffer is the filled one and the history holds
\* the one snapshot of the pointer-down.
C15_Witness ==
    /\ obs.ev = "up" /\ obs.g # Null
    /\ tool = "fill" /\ ~isDrawing
    /\ obs.pt # obs.g[1].start
    /\ history = <<obs.g[1].pre>>
    /\ Cardinality({i \in DOMAIN canvas.data : canvas.data[i] # obs.g[1].pre.data[i]}) >= 2

(***************************************************************************)
(* A load that completes among other events                                *)
(***************************************************************************)

\* A display of 2 x 1 cells that may shrink to 1 x 1 and grow back; pencil
\* and eraser strokes, undo, clear and resize at any time between the
\* request of a load and the moment its image is ready.
ReadyBoxes == {<<1, 1>>, <<2, 1>>}

InitReady == probe = NoProbe /\ InitWith(Mounted(2, 1, 1, "pencil", HexBlack, 1))

NextReady ==
    \/ \E t \in {"pencil", "eraser"} : SetTool(t)
    \/ \E p \in Pixels(canvas.cssW, canvas.cssH) :
          ~isDrawing /\ Len(history) < MaxSnapshots /\ PointerDown(p, FALSE)
    \/ \E p \in Pixels(canvas.cssW, canvas.cssH) : isDrawing /\ PointerUp(p)
    \/ Undo(FALSE)
    \/ Clear
    \/ \E box \in ReadyBoxes : Resize(box[1], box[2], 1)
    \/ Cardinality(pending) < MaxPending /\ SaveAndLoad
    \/ \E image \in pending : ImageOnload(image)

SpecReady == InitReady /\ [][NextReady]_vars

\* The image stretched over a buffer of w x h pixels.
Stretched(img, w, h) ==
    Image(w, h, [i \in 0..(w * h - 1) |->
                    img.data[Idx(img.w, <<((i % w) * img.w) \div w,
                                          ((i \div w) * img.h) \div h>>)]])

\* C16: when the image of a load is ready, the buffer becomes the image
\* stretched to the buffer's size and the history becomes empty, whatever
\* happened between the request and that moment.
C16_LoadReplaces ==
    obs.ev = "loaded" =>
        /\ BufferOf(canvas) = Stretched(obs.img[1], canvas.w, canvas.h)
        /\ history = <<>>

(***************************************************************************)
(* A snapshot that cannot be captured                                      *)
(***************************************************************************)

\* getImageData throws on a canvas without pixels, which is what the canvas
\* is once the wrapper has collapsed (a box of height 0).  Pointer events
\* keep arriving at the point (0,0) of the canvas.  Every failed capture
\* leaves one more saved drawing state on the context's stack.
FailBoxes == {<<1, 1>>, <<1, 0>>}
MaxSaved == 2

InitFail == probe = NoProbe /\ InitWith(Mounted(1, 1, 1, "pencil", HexBlack, 1))

NextFail ==
    \/ \E t \in Tools : SetTool(t)
    \/ /\ Len(history) < MaxSnapshots
       /\ Len(ctx.saved) < MaxSaved
       /\ PointerDown(<<0, 0>>, FALSE)
    \/ PointerMove(<<0, 0>>)
    \/ PointerUp(<<0, 0>>)
    \/ \E box \in FailBoxes : Resize(box[1], box[2], 1)

SpecFail == InitFail /\ [][NextFail]_vars

\* C17: when the snapshot cannot be captured at a pointer-down, the history
\* stays as it is and the operation goes on: with the pencil, the eraser or
\* a shape tool the gesture is under way and its path is drawn, and with the
\* fill tool floodFill runs to its end (its context.save() is matched by its
\* context.restore(), so that only the failed capture's saved state is left
\* on the stack).
C17_OperationProceeds ==
    [][(obs'.ev = "down" /\ (canvas.w = 0 \/ canvas.h = 0)) =>
           /\ history' = history
           /\ tool # "fill" => isDrawing'
           /\ tool \in {"pencil", "eraser"} => ctx'.path.cells = {<<0, 0>>}
           /\ tool \in ShapeTools => shapeStart' = <<0, 0>>
           /\ tool = "fill" => Len(ctx'.saved) = Len(ctx.saved) + 1]_vars

(***************************************************************************)
(* The size and the content of the buffer after the mount                  *)
(***************************************************************************)

\* C18: after the mount and after every resize the buffer measures the
\* display size times the scale factor, and at least 1 x 1.
C18_BufferAtLeastOne ==
    /\ canvas.w = canvas.cssW * ctx.scale
    /\ canvas.h = canvas.cssH * ctx.scale
    /\ canvas.w >= 1 /\ canvas.h >= 1

\* The component mounts in a wrapper of any of the boxes, at any ratio; then
\* the wrapper is resized, the tool is changed and Ryd is clicked, but there
\* is no gesture, no undo and no load.
InitMount ==
    /\ probe = NoProbe
    /\ \E size \in WrapperSizes, ratio \in Ratios :
          InitWith(Mounted(size[1], size[2], ratio, "pencil", HexBlack, 1))

NextMount ==
    \/ \E t \in Tools : SetTool(t)
    \/ Clear
    \/ \E size \in WrapperSizes, ratio \in Ratios : Resize(size[1], size[2], ratio)

SpecMount == InitMount /\ [][NextMount]_vars

\* C19: after the mount and before any gesture, undo or load, every pixel
\* of the buffer is opaque white and the history is empty.
C19_WhiteAfterMount ==
    /\ \A i \in DOMAIN canvas.data : canvas.data[i] = OpaqueWhite
    /\ history = <<>>

(***************************************************************************)
(* hexToRgba as a function of the colour string                            *)
(***************************************************************************)

\* Every string of three hex digits, and the strings of six digits made of
\* the digits 0, 1, a and f, each with and without a leading '#'.
SixDigitValues == {0, 1, 10, 15}
ProbeDigits == [1..3 -> 0..15] \cup [1..6 -> SixDigitValues]

InitHex ==
    /\ InitWith(Mounted(1, 1, 1, "pencil", HexBlack, 1))
    /\ probe \in [fn : {"hexToRgba"}, digits : ProbeDigits, done : {FALSE},
                  hashed : {Transparent}, bare : {Transparent}, doubled : {Transparent}]

\* hexToRgba of the string with '#', without it, and of the three-digit
\* string with each digit doubled.
ProbeHexToRgba ==
    /\ probe.fn = "hexToRgba"
    /\ ~probe.done
    /\ LET d == probe.digits
           dd == IF Len(d) = 3 THEN [i \in 1..6 |-> d[(i + 1) \div 2]] ELSE d
       IN  probe' = [probe EXCEPT !.done = TRUE,
                                  !.hashed = hexToRgba(Hex(TRUE, d)),
                                  !.bare = hexToRgba(Hex(FALSE, d)),
                                  !.doubled = hexToRgba(Hex(TRUE, dd))]
    /\ UNCHANGED <<canvas, ctx, history, isDrawing, shapeStart, shapeSnapshot, tool,
                   color, brushSize, clearSignal, undoSignal, pending, obs>>

NextHex == ProbeHexToRgba

SpecHex == InitHex /\ [][NextHex]_vars

\* C20: hexToRgba gives for three digits 'rgb' what it gives for 'rrggbb',
\* gives the same with and without the leading '#', gives r, g and b in
\* 0..255 equal to the value of the corresponding pair of hex digits, and
\* always gives alpha 255.
C20_ShortFormAndHash ==
    (probe.fn = "hexToRgba" /\ probe.done) =>
        LET d == probe.digits
            v == probe.hashed
        IN  /\ probe.bare = v
            /\ v[4] = 255
            /\ \A i \in 1..3 : v[i] \in 0..255
            /\ Len(d) = 3 =>
                  /\ v = probe.doubled
                  /\ v = <<16 * d[1] + d[1], 16 * d[2] + d[2], 16 * d[3] + d[3], 255>>
            /\ Len(d) = 6 =>
                  v = <<16 * d[1] + d[2], 16 * d[3] + d[4], 16 * d[5] + d[6], 255>>

\* The three-digit string 'a1f', which reads as 'aa11ff'.
C20_Witness ==
    /\ probe.fn = "hexToRgba" /\ probe.done
    /\ probe.digits = <<10, 1, 15>>
    /\ probe.hashed = <<170, 17, 255, 255>>
    /\ probe.bare = <<170, 17, 255, 255>>
    /\ probe.doubled = <<170, 17, 255, 255>>

(***************************************************************************)
(* C21: a pointer-down that alters nothing does not consume an undo step.  *)
(* handlePointerDown pushes the snapshot before floodFill decides whether  *)
(* the seed already matches, so the statement fails under SpecFill.        *)
(***************************************************************************)

\* C21: a pointer-down with the fill tool that leaves every buffer pixel
\* unchanged leaves the undo history unchanged.
C21_NoOpConsumesNoUndo ==
    [][(obs'.ev = "down" /\ tool = "fill" /\ canvas' = canvas)
          => history' = history]_vars

(***************************************************************************)
(* SpecMode: gestures of the drawing tools on a display of 2x1, the tool   *)
(* chosen between gestures only, with undo, clear and resize at any time,  *)
(* also between the pointer-moves of a gesture.                            *)
(***************************************************************************)

ModeTools == {"pencil", "eraser", "line", "rectangle", "ellipse"}

InitMode == probe = NoProbe /\ InitWith(Mounted(2, 1, 1, "pencil", HexBlack, 1))

NextMode ==
    \/ \E t \in ModeTools : ~isDrawing /\ SetTool(t)
    \/ \E p \in Pixels(canvas.cssW, canvas.cssH) :
          ~isDrawing /\ Len(history) < MaxSnapshots /\ PointerDown(p, FALSE)
    \/ \E p \in Pixels(canvas.cssW, canvas.cssH) : isDrawing /\ PointerMove(p)
    \/ \E p \in Pixels(canvas.cssW, canvas.cssH) : isDrawing /\ PointerUp(p)
    \/ Undo(FALSE)
    \/ Clear
    \/ \E box \in ReadyBoxes : Resize(box[1], box[2], 1)

SpecMode == InitMode /\ [][NextMode]_vars

\* C22: while a gesture is under way (its tool cannot change in SpecMode),
\* after its pointer-down and after each of its pointer-moves the composite
\* operation the stroke was drawn with is destination-out for the eraser and
\* source-over for pencil, line, rectangle and ellipse.
C22_CompositePerTool ==
    (isDrawing /\ obs.ev \in {"down", "move"})
        => ctx.gco = IF tool = "eraser" THEN "destination-out" ELSE "source-over"

(***************************************************************************)
(* SpecFlood: floodFill taken one loop iteration at a time, on every 2x2   *)
(* buffer over three colours, from every seed of the 4x4 square around it  *)
(* (in and out of bounds), for two fill colours.  probe holds floodFill's  *)
(* locals: the image data, the stack, visited and the setPixel calls.      *)
(***************************************************************************)

FloodSize == <<2, 2>>
FloodColors == {OpaqueWhite, <<235, 235, 235, 255>>, <<0, 0, 0, 255>>}
FloodFills == {HexBlack, HexWhite}
FloodSeeds == {<<x, y>> : x \in -1..FloodSize[1], y \in -1..FloodSize[2]}

InitFlood ==
    /\ InitWith(Mounted(1, 1, 1, "fill", HexBlack, 1))
    /\ \E data \in [0..(FloodSize[1] * FloodSize[2] - 1) -> FloodColors],
          seed \in FloodSeeds, c \in FloodFills :
          probe = [fn |-> "floodFill", phase |-> "start",
                   width |-> FloodSize[1], height |-> FloodSize[2],
                   pixelPoint |-> seed, fillColor |-> hexToRgba(c),
                   targetColor |-> At(data, Idx(FloodSize[1], seed)),
                   ls |-> [data |-> data, stack |-> <<>>, visited |-> {},
                           writes |-> <<>>]]

ProbeUnchanged ==
    UNCHANGED <<canvas, ctx, history, isDrawing, shapeStart, shapeSnapshot, tool,
                color, brushSize, clearSignal, undoSignal, pending, obs>>

\* The early return when the target matches the fill colour.
FloodReturn ==
    /\ probe.fn = "floodFill" /\ probe.phase = "start"
    /\ colorsMatch(probe.targetColor, probe.fillColor)
    /\ probe' = [probe EXCEPT !.phase = "returned"]
    /\ ProbeUnchanged

\* const stack = [pixelPoint]
FloodStart ==
    /\ probe.fn = "floodFill" /\ probe.phase = "start"
    /\ ~colorsMatch(probe.targetColor, probe.fillColor)
    /\ probe' = [probe EXCEPT !.phase = "loop", !.ls.stack = <<probe.pixelPoint>>]
    /\ ProbeUnchanged

\* One iteration of while (stack.length > 0).
FloodStep ==
    /\ probe.fn = "floodFill" /\ probe.phase = "loop"
    /\ probe.ls.stack # <<>>
    /\ probe' = [probe EXCEPT !.ls = floodStep(probe.ls, probe.width, probe.height,
                                               probe.fillColor, probe.targetColor)]
    /\ ProbeUnchanged

\* The loop's exit.
FloodExit ==
    /\ probe.fn = "floodFill" /\ probe.phase = "loop"
    /\ probe.ls.stack = <<>>
    /\ probe' = [probe EXCEPT !.phase = "done"]
    /\ ProbeUnchanged

NextFlood == FloodReturn \/ FloodStart \/ FloodStep \/ FloodExit

SpecFlood == InitFlood /\ [][NextFlood]_vars

\* The handler runs to completion: a step that can be taken is taken.
SpecFloodFair == SpecFlood /\ WF_vars(NextFlood)

\* C23: once the loop of floodFill has started it reaches its exit with an
\* empty stack, and no pixel is passed to setPixel twice during one fill:
\* the setPixel calls are pairwise different and are exactly the pixels
\* marked visited.
C23_TerminatesWriteOnce ==
    /\ []((\A i, j \in DOMAIN probe.ls.writes :
              probe.ls.writes[i] = probe.ls.writes[j] => i = j)
          /\ probe.ls.visited = {probe.ls.writes[i] : i \in DOMAIN probe.ls.writes})
    /\ (probe.phase = "loop") ~> (probe.phase = "done" /\ probe.ls.stack = <<>>)

\* A fill that painted all four pixels: every pixel was pushed again by its
\* neighbours after it had been marked visited.
C23_Witness ==
    /\ probe.phase = "done"
    /\ probe.ls.stack = <<>>
    /\ Len(probe.ls.writes) = 4

(***************************************************************************)
(* C24 (under SpecResize): repeating a resize.                             *)
(***************************************************************************)

\* C24: a resize to the display size and scale factor the canvas already has
\* leaves the buffer as it is; the second of two equal resizes in a row is
\* such a step, so two in a row give the buffer that one gives.
C24_SameResizeKeepsBuffer ==
    [][(/\ obs'.ev = "resize"
        /\ canvas'.cssW = canvas.cssW
        /\ canvas'.cssH = canvas.cssH
        /\ ctx'.scale = ctx.scale)
          => canvas' = canvas]_vars

\* A drawing of 3x2 pixels (display 3x2 at ratio 1, the only wrapper size
\* and ratio giving this buffer) with a black pixel, resized to 3x2 again.
C24_Witness ==
    /\ obs.ev = "resize"
    /\ obs.img[1].w = 3 /\ obs.img[1].h = 2
    /\ canvas.w = 3 /\ canvas.h = 2 /\ canvas.cssW = 3 /\ ctx.scale = 1
    /\ \E p \in Pixels(3, 2) : canvas.data[Idx(3, p)] = <<0, 0, 0, 255>>
    /\ \E p \in Pixels(3, 2) : canvas.data[Idx(3, p)] = OpaqueWhite

(***************************************************************************)
(* SpecStale: a stored drawing of 2x1 pixels (black, white) has been       *)
(* loaded; gestures of pencil, line and rectangle with undo, clear and     *)
(* load at any time, also while a gesture is under way.                    *)
(***************************************************************************)

StaleTools == {"pencil", "line", "rectangle"}

InitStale ==
    /\ probe = NoProbe
    /\ InitWith([Mounted(2, 1, 1, "pencil", HexBlack, 1)
                    EXCEPT !.cv.data = [i \in 0..1 |-> IF i = 0 THEN <<0, 0, 0, 255>>
                                                       ELSE OpaqueWhite]])

NextStale ==
    \/ \E t \in StaleTools : SetTool(t)
    \/ \E p \in Pixels(canvas.cssW, canvas.cssH) :
          ~isDrawing /\ Len(history) < MaxSnapshots /\ PointerDown(p, FALSE)
    \/ \E p \in Pixels(canvas.cssW, canvas.cssH) : isDrawing /\ PointerMove(p)
    \/ \E p \in Pixels(canvas.cssW, canvas.cssH) : isDrawing /\ PointerUp(p)
    \/ Undo(FALSE)
    \/ Clear
    \/ Cardinality(pending) < MaxPending /\ SaveAndLoad
    \/ \E image \in pending : ImageOnload(image)

SpecStale == InitStale /\ [][NextStale]_vars

\* C25: the event that follows a clear or a completed load writes no
\* snapshot into the buffer: an undo finds the history empty, and a
\* pointer-move or pointer-up does not run restoreSnapshot on a preview
\* snapshot (every snapshot held at that moment was captured before the
\* clear or load).
C25_NoStaleSnapshot ==
    [][(obs.ev \in {"clear", "loaded"})
          => /\ obs'.ev = "undo" => history = <<>>
             /\ obs'.ev = "move" =>
                   ~(isDrawing /\ tool \in ShapeTools /\ shapeStart # Null
                               /\ shapeSnapshot # Null)
             /\ obs'.ev = "up" =>
                   ~(tool \in ShapeTools /\ shapeStart # Null
                               /\ shapeSnapshot # Null)]_vars

(***************************************************************************)
(* C26 (under SpecMode): what a resize leaves alone.                       *)
(***************************************************************************)

\* C26: a resize step leaves the undo history (its length and every stored
\* snapshot, dimensions included) and the gesture state (drawing flag,
\* shape start point, preview snapshot) as they were.
C26_ResizeKeepsHistoryAndGesture ==
    [][obs'.ev = "resize"
          => UNCHANGED <<history, isDrawing, shapeStart, shapeSnapshot>>]_vars

\* A resize from 2x1 to 1x1 during a shape gesture: the gesture is still
\* under way and the history and the preview snapshot still hold the 2x1
\* buffer captured at the pointer-down.
C26_Witness ==
    /\ obs.ev = "resize"
    /\ obs.img[1].w = 2
    /\ canvas.w = 1
    /\ isDrawing
    /\ tool \in ShapeTools
    /\ shapeStart # Null
    /\ shapeSnapshot # Null /\ shapeSnapshot[1].w = 2
    /\ Len(history) = 1 /\ history[1].w = 2

(***************************************************************************)
(* SpecBalance: every operation that switches to the identity transform,   *)
(* on wrappers of 1x1 and 1x0 (a canvas without pixels, on which           *)
(* getImageData throws) at device pixel ratios 1 and 2, with the fill and  *)
(* line tools, undo, clear and load.                                       *)
(***************************************************************************)

InitBalance == probe = NoProbe /\ InitWith(Mounted(1, 1, 2, "line", HexBlack, 1))

BalanceTools == {"fill", "line"}

NextBalance ==
    \/ \E t \in BalanceTools : SetTool(t)
    \/ /\ Len(history) < MaxSnapshots
       /\ Len(ctx.saved) < MaxSaved
       /\ PointerDown(<<0, 0>>, FALSE)
    \/ PointerMove(<<0, 0>>)
    \/ PointerUp(<<0, 0>>)
    \/ Undo(FALSE)
    \/ Clear
    \/ \E box \in FailBoxes, ratio \in Ratios : Resize(box[1], box[2], ratio)
    \/ pending = {} /\ ~isDrawing /\ SaveAndLoad
    \/ \E image \in pending : ImageOnload(image)

SpecBalance == InitBalance /\ [][NextBalance]_vars

\* C27: between events the context's transform is the scale set by the last
\* resize (buffer size = display size times scale) and no saved state is
\* left on the context's stack.
C27_TransformRestored ==
    /\ ctx.saved = <<>>
    /\ ctx.scale * canvas.cssW = canvas.w
    /\ ctx.scale * canvas.cssH = canvas.h

====
